---------------------------- MODULE Spec2Model ----------------------------
(***************************************************************************)
(* Model of the action server of rcl_action (action_server.c): the goal     *)
(* handle table, goal acceptance, cancel-request resolution and the         *)
(* expiration sweep.                                                        *)
(*                                                                          *)
(* Memory is modelled at the level of pointer slots.  A read outside an     *)
(* allocation, or of freed memory, is undefined behaviour in C: the value   *)
(* read is chosen nondeterministically among a null pointer, a wild         *)
(* pointer and a stale pointer to a goal handle the server allocated        *)
(* earlier.  Dereferencing a wild pointer terminates the process, and so     *)
(* may any use of an array that was freed or shrunk below its slots.        *)
(*                                                                          *)
(* Integer widths are scaled down (TLC integers are 32 bit): NsPerSec       *)
(* stands for 10^9, I32Bits for the 32 bits of stamp.sec, U32Bits for the   *)
(* 32 bits of stamp.nanosec and I64Bits for the 64 bits of a time point,    *)
(* keeping 2^(I32Bits-1) * NsPerSec < 2^(I64Bits-1) as in the program.      *)
(***************************************************************************)
EXTENDS Integers, Sequences, FiniteSets, TLC

\* ------------------------------------------------------------------ bounds
MaxHandles == 3      \* goal handles the server may allocate in one run
MaxUuid == 1         \* goal UUIDs are 0 (the zero UUID) .. MaxUuid
MaxClock == 2        \* a clock started at 0 reads 0 .. MaxClock
MaxLate == 1         \* a clock started at LateClock reads up to LateClock + MaxLate
ResultTimeout == 1   \* options.result_timeout.nanoseconds
NsPerSec == 2        \* RCUTILS_S_TO_NS(1), scaled
I32Bits == 2         \* width of stamp.sec, scaled
U32Bits == 2         \* width of stamp.nanosec, scaled
I64Bits == 5         \* width of rcl_time_point_value_t, scaled

\* ------------------------------------------------------- program constants
NullPtr == 0         \* NULL
PtrSize == 8         \* sizeof(rcl_action_goal_handle_t *)

WildPtr == MaxHandles + 1
INT64_MAX == 2 ^ (I64Bits - 1) - 1
Uuids == 0 .. MaxUuid
ZeroUuid == 0        \* the all-zero UUID tested by uuidcmpzero

VARIABLES
  proc,              \* "running", or "aborted" once the process has crashed
  impl,              \* action_server->impl: "null" or "valid"
  goal_handles,      \* the words at impl->goal_handles[0 .. num_goal_handles-1]
  num_goal_handles,  \* impl->num_goal_handles
  array_state,       \* allocation behind impl->goal_handles:
                     \*   "null" no array, "ok" large enough, "short" smaller
                     \*   than the tracked slots, "freed" deallocated (dangling)
  handles,           \* every goal handle initialised so far, by address 1, 2, ..
  accepted_at,       \* per handle, the clock reading taken when it was accepted
  clock_now,         \* the reading rcl_clock_get_now would return
  watch,             \* the operation whose calls are recorded in `last`
  last               \* the last step, when it was a call of the watched
                     \* operation: its arguments and results

vars == <<proc, impl, goal_handles, num_goal_handles, array_state, handles,
          accepted_at, clock_now, watch, last>>

\* ------------------------------------------------------------ stamp split
\* C integer division and remainder truncate toward zero.
CDiv(a, b) == IF a >= 0 THEN a \div b ELSE -((-a) \div b)
CMod(a, b) == a - b * CDiv(a, b)

\* (int32_t) x: keep the low I32Bits bits, two's complement.
ToInt32(x) ==
  LET m == 2 ^ I32Bits
      r == x % m
  IN IF r >= 2 ^ (I32Bits - 1) THEN r - m ELSE r

\* (uint32_t) x: keep the low U32Bits bits.
ToUint32(x) == x % (2 ^ U32Bits)

\* _nanosec_to_goal_info_stamp
NanosecToGoalInfoStamp(t) ==
  [sec |-> ToInt32(CDiv(t, NsPerSec)), nanosec |-> ToUint32(CMod(t, NsPerSec))]

\* _goal_info_stamp_to_nanosec
GoalInfoStampToNanosec(info) == info.sec * NsPerSec + info.nanosec

\* The stamp (sec, nanosec) clients put in the goal info they submit: one no
\* clock reading of the model splits into.
ClientStamps == {<<1, 1>>}

\* ------------------------------------------------------------ goal handle
\* The goal state machine of the goal handle collaborator.
ActiveStates == {"ACCEPTED", "EXECUTING", "CANCELING"}
CancelableStates == {"ACCEPTED", "EXECUTING"}
TerminalStates == {"SUCCEEDED", "ABORTED", "CANCELED"}

\* rcl_action_goal_handle_is_valid: a non-null handle that was not finalized.
GoalHandleIsValid(hs, p) == p \in 1 .. Len(hs) /\ hs[p].state # "DISPOSED"

GoalHandleIsActive(hs, p) == GoalHandleIsValid(hs, p) /\ hs[p].state \in ActiveStates

GoalHandleIsCancelable(hs, p) ==
  GoalHandleIsValid(hs, p) /\ hs[p].state \in CancelableStates

GoalHandleGetInfo(hs, p) ==
  [uuid |-> hs[p].uuid, sec |-> hs[p].sec, nanosec |-> hs[p].nanosec]

\* rcl_action_goal_handle_fini: the handle's storage (info and state) is
\* released; the handle reads as invalid from then on.
GoalHandleFini(h) == [uuid |-> 0, sec |-> 0, nanosec |-> 0, state |-> "DISPOSED"]

\* The transitions of the goal state machine: state after `event`, or "" when
\* the event is not allowed in `state`.
GoalTransition(state, event) ==
  CASE state = "ACCEPTED" /\ event = "EXECUTE" -> "EXECUTING"
    [] state \in {"ACCEPTED", "EXECUTING"} /\ event = "CANCEL" -> "CANCELING"
    [] state \in {"EXECUTING", "CANCELING"} /\ event = "SUCCEED" -> "SUCCEEDED"
    [] state \in {"EXECUTING", "CANCELING"} /\ event = "ABORT" -> "ABORTED"
    [] state = "CANCELING" /\ event = "CANCELED" -> "CANCELED"
    [] OTHER -> ""

Events == {"EXECUTE", "CANCEL", "SUCCEED", "ABORT", "CANCELED"}

\* ------------------------------------------------------------------ memory
\* Values a read outside the array can produce.
Garbage(hs) == {NullPtr, WildPtr} \cup (1 .. Len(hs))

\* impl->goal_handles points at memory the tracked slots do not fit in (freed,
\* or reallocated to fewer bytes): using it is undefined; it either still reads
\* as the words last written there or terminates the process.
BadArrayUse == array_state \in {"freed", "short"} /\ num_goal_handles > 0

\* The set of elements of a sequence.
SeqRange(seq) == {seq[i] : i \in 1 .. Len(seq)}

NoCall == [op |-> "none", ret |-> "OK", uuid |-> 0, sec |-> 0, nanosec |-> 0,
           sel |-> <<>>, resp |-> <<>>, count |-> 0, oob |-> FALSE,
           cause |-> "OK"]

Call(op, ret) == [NoCall EXCEPT !.op = op, !.ret = ret]

\* The operations whose calls are recorded when `watch` is w.
WatchedOps(w) == IF w = "lifecycle" THEN {"init", "fini"} ELSE {w}

\* What `last` becomes after a call described by rec.
Observed(rec) == IF rec.op \in WatchedOps(watch) THEN rec ELSE NoCall

\* rcl_action_server_is_valid
ServerIsValid == impl = "valid"

\* The process terminates abnormally: the server and its memory are gone.
Abort ==
  /\ proc' = "aborted"
  /\ impl' = "null"
  /\ goal_handles' = <<>>
  /\ num_goal_handles' = 0
  /\ array_state' = "null"
  /\ handles' = <<>>
  /\ accepted_at' = <<>>
  /\ last' = Call("abort", "ABORT")
  /\ UNCHANGED <<clock_now, watch>>

InitServer ==
  /\ proc = "running"
  /\ impl = "null"
  /\ goal_handles = <<>>
  /\ num_goal_handles = 0
  /\ array_state = "null"
  /\ handles = <<>>
  /\ accepted_at = <<>>
  /\ last = NoCall

Init ==
  /\ InitServer
  /\ clock_now = 0
  /\ watch = "none"

\* The endpoints of the server, in the order init creates and fini finalizes
\* them.
Endpoints == <<"goal_service", "cancel_service", "result_service",
               "feedback_publisher", "status_publisher">>

\* The steps of init that can fail once impl is allocated, with the values init
\* returns for them: SERVICE_INIT x 3, PUBLISHER_INIT x 2, the action name copy.
InitStepErrors(step) ==
  IF step = "action_name" THEN {"BAD_ALLOC"}
  ELSE {"BAD_ALLOC", "ACTION_NAME_INVALID", "ERROR"}

InitSteps == SeqRange(Endpoints) \cup {"action_name"}

\* init without its test of impl.
InitSeesImplNever(i) == FALSE

\* "if (action_server->impl)": whether init finds the server initialized.
InitSeesImpl(i) == i # "null"

\* init succeeds: impl is allocated and filled, the goal handle array is empty.
\* `handles` starts over: it lists the goal handles of the current impl, and
\* those an earlier impl left behind are unreachable from the new one.
InitSucceeds ==
  /\ impl' = "valid"
  /\ goal_handles' = <<>>
  /\ num_goal_handles' = 0
  /\ array_state' = "null"
  /\ handles' = <<>>
  /\ accepted_at' = <<>>
  /\ last' = Observed(Call("init", "OK"))
  /\ UNCHANGED <<watch, proc, clock_now>>

\* init fails at a step after impl was allocated: "fail:" calls
\* rcl_action_server_fini on an impl whose options.allocator, action_name and
\* not yet created endpoints were never written (allocate does not clear the
\* block).  fini finalizes those endpoints and calls the allocator read from
\* that memory: undefined behaviour, which either terminates the process or
\* comes back, and then impl is NULL and init returns the step's error.
InitFailsAt(step, ret) ==
  \/ Abort
  \/ /\ impl' = "null"
     /\ last' = Observed(Call("init", ret))
     /\ UNCHANGED <<watch, proc, goal_handles, num_goal_handles, array_state,
                    handles, accepted_at, clock_now>>

\* rcl_action_server_init (valid arguments)
ServerInit ==
  /\ proc = "running"
  /\ IF InitSeesImpl(impl)
       THEN /\ last' = Observed(Call("init", "ALREADY_INIT"))
            /\ UNCHANGED <<watch, proc, impl, goal_handles, num_goal_handles,
                           array_state, handles, accepted_at, clock_now>>
       ELSE \/ \* allocating impl fails
               /\ last' = Observed(Call("init", "BAD_ALLOC"))
               /\ UNCHANGED <<watch, proc, impl, goal_handles, num_goal_handles,
                              array_state, handles, accepted_at, clock_now>>
            \/ \E step \in InitSteps : \E ret \in InitStepErrors(step) :
                 InitFailsAt(step, ret)
            \/ InitSucceeds

\* The endpoint teardowns of fini from endpoint i on: every endpoint is
\* finalized, a failure only turns the result into ERROR.
RECURSIVE FiniEndpoints(_, _, _)
FiniEndpoints(failed, i, acc) ==
  IF i > Len(Endpoints) THEN acc
  ELSE FiniEndpoints(failed, i + 1,
         [done |-> Append(acc.done, Endpoints[i]),
          ret |-> IF Endpoints[i] \in failed THEN "ERROR" ELSE acc.ret])

\* The teardown failures explored: none, or one endpoint.
FiniFailures == {{}} \cup {{e} : e \in SeqRange(Endpoints)}

\* impl after a fini that keeps it when a teardown failed.
ImplAfterFiniKeptOnError(ret) == IF ret = "ERROR" THEN "valid" ELSE "null"

\* action_server->impl after fini went through "if (action_server->impl)".
ImplAfterFini(ret) == "null"

\* rcl_action_server_fini(action_server, node): the endpoints in `failed` fail
\* to finalize.  Neither the goal handles nor the goal handle array are
\* touched: they are lost with impl.
ServerFini(node_valid, failed) ==
  /\ proc = "running"
  /\ IF ~node_valid
       THEN /\ last' = Observed(Call("fini", "NODE_INVALID"))
            /\ UNCHANGED <<watch, proc, impl, goal_handles, num_goal_handles,
                           array_state, handles, accepted_at, clock_now>>
     ELSE IF impl = "null"
       THEN /\ last' = Observed(Call("fini", "OK"))
            /\ UNCHANGED <<watch, proc, impl, goal_handles, num_goal_handles,
                           array_state, handles, accepted_at, clock_now>>
     ELSE LET r == FiniEndpoints(failed, 1, [done |-> <<>>, ret |-> "OK"])
          IN /\ impl' = ImplAfterFini(r.ret)
             /\ goal_handles' = <<>>
             /\ num_goal_handles' = 0
             /\ array_state' = "null"
             /\ last' = Observed([Call("fini", r.ret) EXCEPT !.sel = r.done])
             /\ UNCHANGED <<watch, proc, handles, accepted_at, clock_now>>

\* The first clock reading at or after which stamp.sec no longer holds the
\* seconds (2^31 s in the program).
LateClock == 2 ^ (I32Bits - 1) * NsPerSec

\* The clock collaborator: time passes.
AdvanceClock ==
  /\ proc = "running"
  /\ clock_now # MaxClock
  /\ clock_now # LateClock + MaxLate
  /\ clock_now' = clock_now + 1
  /\ last' = Observed(Call("clock", "OK"))
  /\ UNCHANGED <<watch, proc, impl, goal_handles, num_goal_handles, array_state,
                 handles, accepted_at>>

\* The host drives a goal through its state machine (rcl_action_update_goal_state
\* on a handle it borrowed from accept_new_goal).
UpdateGoalState(p, event) ==
  /\ proc = "running"
  /\ GoalHandleIsValid(handles, p)
  /\ GoalTransition(handles[p].state, event) # ""
  /\ handles' = [handles EXCEPT ![p].state = GoalTransition(handles[p].state, event)]
  /\ last' = Observed(Call("update_goal_state", "OK"))
  /\ UNCHANGED <<watch, proc, impl, goal_handles, num_goal_handles, array_state,
                 accepted_at, clock_now>>

\* ------------------------------------------------------------- goal_exists
\* The scan of rcl_action_server_goal_exists from slot i (1-based) on:
\* "true", "false" (also on the first handle whose info cannot be read), or
\* "crash" when it dereferences a wild pointer.
RECURSIVE GoalExistsFrom(_, _, _, _, _)
GoalExistsFrom(gh, n, hs, uuid, i) ==
  IF i > n THEN "false"
  ELSE IF gh[i] = WildPtr THEN "crash"
  ELSE IF ~GoalHandleIsValid(hs, gh[i]) THEN "false"
  ELSE IF hs[gh[i]].uuid = uuid THEN "true"
  ELSE GoalExistsFrom(gh, n, hs, uuid, i + 1)

\* rcl_action_server_goal_exists
ServerGoalExists(uuid) ==
  IF ~ServerIsValid THEN "false"
  ELSE GoalExistsFrom(goal_handles, num_goal_handles, handles, uuid, 1)

\* ---------------------------------------------------------- accept_new_goal
\* Returns NULL before anything was allocated: invalid server, duplicate UUID
\* or failed reallocate (which leaves the old array in place).
AcceptReturnsNull(uuid) ==
  /\ last' = Observed([Call("accept", "NULL") EXCEPT !.uuid = uuid])
  /\ UNCHANGED <<watch, proc, impl, goal_handles, num_goal_handles, array_state,
                 handles, accepted_at, clock_now>>

\* The array was reallocated to num_goal_handles + 1 slots, then allocating the
\* handle, reading the clock or initialising the handle failed: the function
\* returns NULL without storing the new array pointer.  When reallocate moved
\* the block, impl->goal_handles is left pointing at the freed old block.
AcceptFailsAfterRealloc(uuid, moved) ==
  /\ last' = Observed([Call("accept", "NULL") EXCEPT !.uuid = uuid])
  /\ IF array_state = "null"
       THEN UNCHANGED <<goal_handles, array_state>>
       ELSE /\ array_state' = IF moved THEN "freed" ELSE "ok"
            /\ UNCHANGED goal_handles
  /\ UNCHANGED <<watch, proc, impl, num_goal_handles, handles, accepted_at, clock_now>>

\* The stamp accept_new_goal stores for a clock reading.
AcceptStamp(now, in_sec, in_nanosec) == NanosecToGoalInfoStamp(now)

\* The handle accept_new_goal creates.
NewGoalHandle(uuid, now, in_sec, in_nanosec) ==
  LET stamp == AcceptStamp(now, in_sec, in_nanosec)
  IN [uuid |-> uuid, sec |-> stamp.sec, nanosec |-> stamp.nanosec,
      state |-> "ACCEPTED"]

AcceptSucceeds(uuid, in_sec, in_nanosec) ==
  /\ Len(handles) < MaxHandles
  /\ handles' = Append(handles, NewGoalHandle(uuid, clock_now, in_sec, in_nanosec))
  /\ accepted_at' = Append(accepted_at, clock_now)
  /\ goal_handles' = Append(goal_handles, Len(handles) + 1)
  /\ num_goal_handles' = num_goal_handles + 1
  /\ array_state' = "ok"
  /\ last' = Observed([Call("accept", "HANDLE") EXCEPT !.uuid = uuid])
  /\ UNCHANGED <<watch, proc, impl, clock_now>>

\* Whether accept_new_goal takes `uuid` for a goal already in the table.
AcceptSeesDuplicate(uuid) == ServerGoalExists(uuid)

\* rcl_action_accept_new_goal(action_server, {uuid, (in_sec, in_nanosec)})
AcceptNewGoal(uuid, in_sec, in_nanosec) ==
  /\ proc = "running"
  /\ IF ~ServerIsValid THEN AcceptReturnsNull(uuid)
     ELSE IF AcceptSeesDuplicate(uuid) = "crash" THEN Abort
     ELSE IF AcceptSeesDuplicate(uuid) = "true"
       THEN \/ AcceptReturnsNull(uuid)
            \/ BadArrayUse /\ Abort
     ELSE \/ AcceptReturnsNull(uuid)
          \/ BadArrayUse /\ Abort
          \/ \E moved \in BOOLEAN : AcceptFailsAfterRealloc(uuid, moved)
          \/ AcceptSucceeds(uuid, in_sec, in_nanosec)

\* ---------------------------------------------------- get_goal_status_array
\* An entry that leaves its status unread.
StatusEntryNoStatus(hs, p) ==
  [uuid |-> hs[p].uuid, sec |-> hs[p].sec, nanosec |-> hs[p].nanosec,
   status |-> "UNKNOWN"]

\* The entry "Populate status array" writes for the handle at p: its goal info
\* and its status.
StatusEntry(hs, p) ==
  [uuid |-> hs[p].uuid, sec |-> hs[p].sec, nanosec |-> hs[p].nanosec,
   status |-> hs[p].state]

\* "Populate status array" from slot i (1-based) on: on the first handle that
\* cannot be read the array is finalized and the result is ERROR.
RECURSIVE StatusArrayFrom(_, _, _, _, _)
StatusArrayFrom(gh, n, hs, i, acc) ==
  IF i > n THEN [ret |-> "OK", list |-> acc, crash |-> FALSE]
  ELSE IF gh[i] = WildPtr THEN [ret |-> "ERROR", list |-> <<>>, crash |-> TRUE]
  ELSE IF ~GoalHandleIsValid(hs, gh[i])
    THEN [ret |-> "ERROR", list |-> <<>>, crash |-> FALSE]
  ELSE StatusArrayFrom(gh, n, hs, i + 1, Append(acc, StatusEntry(hs, gh[i])))

\* The call returns ret with the status list resp after `allocs` allocations
\* of the list.
StatusReturns(ret, resp, allocs) ==
  /\ last' = Observed([Call("status", ret) EXCEPT !.resp = resp, !.count = allocs])
  /\ UNCHANGED <<watch, proc, impl, goal_handles, num_goal_handles, array_state,
                 handles, accepted_at, clock_now>>

\* rcl_action_get_goal_status_array(action_server, &status_message)
GetGoalStatusArray ==
  /\ proc = "running"
  /\ IF ~ServerIsValid THEN StatusReturns("ACTION_SERVER_INVALID", <<>>, 0)
     ELSE IF num_goal_handles = 0 THEN StatusReturns("OK", <<>>, 0)
     ELSE \/ \* rcl_action_goal_status_array_init fails
             \E ret \in {"BAD_ALLOC", "ERROR"} : StatusReturns(ret, <<>>, 0)
          \/ BadArrayUse /\ Abort
          \/ LET r == StatusArrayFrom(goal_handles, num_goal_handles, handles, 1, <<>>)
             IN IF r.crash THEN Abort ELSE StatusReturns(r.ret, r.list, 1)

\* ------------------------------------------------------ clear_expired_goals
\* State of the sweep loop: gh the array words, n the local num_goal_handles,
\* i the scan index (0-based as in the code), count *num_expired, ret ret_final.
SweepStart ==
  [gh |-> goal_handles, n |-> num_goal_handles, i |-> 0, count |-> 0,
   ret |-> "OK", hs |-> handles, crash |-> FALSE, oob |-> FALSE]

\* Whether the sweep removes a terminated goal of age now - goal_time.
Expired(now, goal_time) == (now - goal_time) > ResultTimeout

\* The word the sweep copies into the vacated slot i, read at index n: the word
\* one past the array (`past`) while nothing was removed yet in this call.
SweepFillWord(st, past) == IF st.n = Len(st.gh) THEN past ELSE st.gh[st.n + 1]

\* The slot removal of the sweep: finalize the handle in slot i, then
\*   goal_handles[i] = goal_handles[num_goal_handles];
\*   goal_handles[num_goal_handles--] = NULL;  ++(*num_expired);
SweepRemove(st, past) ==
  LET p == st.gh[st.i + 1]
      filled == [st.gh EXCEPT ![st.i + 1] = SweepFillWord(st, past)]
      nulled == IF st.n = Len(st.gh) THEN filled
                ELSE [filled EXCEPT ![st.n + 1] = NullPtr]
  IN [st EXCEPT !.hs = [st.hs EXCEPT ![p] = GoalHandleFini(st.hs[p])],
                !.gh = nulled,
                !.n = st.n - 1,
                !.count = st.count + 1,
                !.oob = st.oob \/ st.n = Len(st.gh)]

\* The index the scan continues with after looking at slot i.
SweepNextIndex(st) == st.i + 1

\* The for loop of rcl_action_clear_expired_goals.  `debug` tells whether the
\* build keeps assert().
RECURSIVE SweepLoop(_, _, _, _)
SweepLoop(st, past, debug, now) ==
  IF st.i >= st.n THEN st
  ELSE LET p == st.gh[st.i + 1]
           next == [st EXCEPT !.i = SweepNextIndex(st)]
       IN IF p = WildPtr THEN [st EXCEPT !.crash = TRUE]
          ELSE IF GoalHandleIsActive(st.hs, p) THEN SweepLoop(next, past, debug, now)
          ELSE IF ~GoalHandleIsValid(st.hs, p)
            THEN SweepLoop([next EXCEPT !.ret = "ERROR"], past, debug, now)
          ELSE LET goal_time == GoalInfoStampToNanosec(GoalHandleGetInfo(st.hs, p))
               IN IF debug /\ ~(now > goal_time) THEN [st EXCEPT !.crash = TRUE]
                  ELSE IF Expired(now, goal_time)
                    THEN LET rem == SweepRemove(st, past)
                         IN SweepLoop([rem EXCEPT !.i = SweepNextIndex(st)],
                                      past, debug, now)
                  ELSE SweepLoop(next, past, debug, now)

ClearReturns(ret, st) ==
  last' = Observed([Call("clear_expired_goals", ret) EXCEPT !.count = st.count,
                                                   !.oob = st.oob])

\* Number of whole slots inside an allocation of `bytes` bytes.
SlotsIn(bytes) == bytes \div PtrSize

\* The size in bytes the sweep asks reallocate for when n goals remain.
ShrinkBytes(n) == n

\* "Shrink goal handle array if some goals expired" for the loop result st.
SweepShrink(st) ==
  IF st.count = 0
    THEN /\ ClearReturns(st.ret, st)
         /\ UNCHANGED <<watch, proc, goal_handles, num_goal_handles, array_state>>
  ELSE IF st.n = 0
    THEN \* deallocate; neither the pointer nor the count stored in impl changes
         /\ goal_handles' = st.gh
         /\ array_state' = "freed"
         /\ ClearReturns(st.ret, st)
         /\ UNCHANGED <<watch, proc, num_goal_handles>>
  ELSE \/ \* reallocate fails
          /\ goal_handles' = st.gh
          /\ ClearReturns("ERROR", st)
          /\ UNCHANGED <<watch, proc, num_goal_handles, array_state>>
       \/ \* reallocate to ShrinkBytes(n) bytes
          /\ goal_handles' = SubSeq(st.gh, 1, st.n)
          /\ num_goal_handles' = st.n
          /\ array_state' = IF SlotsIn(ShrinkBytes(st.n)) >= st.n THEN "ok" ELSE "short"
          /\ ClearReturns(st.ret, st)
          /\ UNCHANGED <<watch, proc>>

\* rcl_action_clear_expired_goals(action_server, &num_expired)
ClearExpiredGoals ==
  /\ proc = "running"
  /\ IF ~ServerIsValid
       THEN /\ last' = Observed(Call("clear_expired_goals", "ACTION_SERVER_INVALID"))
            /\ UNCHANGED <<watch, proc, impl, goal_handles, num_goal_handles, array_state,
                           handles, accepted_at, clock_now>>
       ELSE \/ \* rcl_clock_get_now fails
               /\ last' = Observed(Call("clear_expired_goals", "ERROR"))
               /\ UNCHANGED <<watch, proc, impl, goal_handles, num_goal_handles, array_state,
                              handles, accepted_at, clock_now>>
            \/ BadArrayUse /\ Abort
            \/ \E past \in Garbage(handles), debug \in BOOLEAN :
                 LET st == SweepLoop(SweepStart, past, debug, clock_now)
                 IN IF st.crash
                      THEN Abort
                      ELSE \/ /\ handles' = st.hs
                              /\ SweepShrink(st)
                              /\ UNCHANGED <<watch, impl, accepted_at, clock_now>>
                           \/ \* the write past the array corrupted the heap
                              st.oob /\ Abort

\* --------------------------------------------------- process_cancel_request
\* "UUID is not zero and timestamp is zero; cancel exactly one goal": the scan
\* from slot i (1-based) on, with sel the handles collected so far.
RECURSIVE CancelScanOne(_, _, _, _, _, _)
CancelScanOne(gh, n, hs, uuid, i, acc) ==
  IF i > n THEN acc
  ELSE IF gh[i] = WildPtr THEN [acc EXCEPT !.crash = TRUE]
  ELSE IF ~GoalHandleIsValid(hs, gh[i])
    THEN CancelScanOne(gh, n, hs, uuid, i + 1, [acc EXCEPT !.ret = "ERROR"])
  ELSE IF hs[gh[i]].uuid = uuid
    THEN IF GoalHandleIsCancelable(hs, gh[i])
           THEN [acc EXCEPT !.sel = Append(acc.sel, gh[i])]
           ELSE acc
  ELSE CancelScanOne(gh, n, hs, uuid, i + 1, acc)

\* The selection test without its UUID disjunct.
CancelSelectsTimeOnly(hs, p, uuid, request_nanosec) ==
  /\ GoalHandleIsCancelable(hs, p)
  /\ GoalInfoStampToNanosec(GoalHandleGetInfo(hs, p)) <= request_nanosec

\* Whether the second loop selects the handle at p for request (uuid, nanosec).
CancelSelects(hs, p, uuid, request_nanosec) ==
  /\ GoalHandleIsCancelable(hs, p)
  /\ \/ GoalInfoStampToNanosec(GoalHandleGetInfo(hs, p)) <= request_nanosec
     \/ hs[p].uuid = uuid

\* "Cancel all active goals at or before the timestamp.  Also cancel any goal
\* matching the UUID in the cancel request."
RECURSIVE CancelScanAll(_, _, _, _, _, _, _)
CancelScanAll(gh, n, hs, uuid, request_nanosec, i, acc) ==
  IF i > n THEN acc
  ELSE IF gh[i] = WildPtr THEN [acc EXCEPT !.crash = TRUE]
  ELSE IF ~GoalHandleIsValid(hs, gh[i])
    THEN CancelScanAll(gh, n, hs, uuid, request_nanosec, i + 1,
                       [acc EXCEPT !.ret = "ERROR"])
  ELSE IF CancelSelects(hs, gh[i], uuid, request_nanosec)
    THEN CancelScanAll(gh, n, hs, uuid, request_nanosec, i + 1,
                       [acc EXCEPT !.sel = Append(acc.sel, gh[i])])
  ELSE CancelScanAll(gh, n, hs, uuid, request_nanosec, i + 1, acc)

\* The time bound without the rewrite of the all-zero request.
CancelBoundNoWildcard(uuid, request_nanosec) == request_nanosec

\* The time bound the second loop uses: INT64_MAX for the all-zero request.
CancelBound(uuid, request_nanosec) ==
  IF uuid = ZeroUuid /\ request_nanosec = 0 THEN INT64_MAX ELSE request_nanosec

\* "Determine how many goals should transition to canceling":
\* goal_handles_to_cancel, ret_final, and whether the scan crashed.
CancelSelection(gh, n, hs, uuid, request_nanosec) ==
  LET acc == [sel |-> <<>>, ret |-> "OK", crash |-> FALSE]
  IN IF uuid # ZeroUuid /\ request_nanosec = 0
       THEN CancelScanOne(gh, n, hs, uuid, 1, acc)
       ELSE CancelScanAll(gh, n, hs, uuid, CancelBound(uuid, request_nanosec), 1, acc)

\* An entry of goals_canceling that the call did not write.
Unfilled == [uuid |-> -1, sec |-> 0, nanosec |-> 0]

\* A cancel loop that moves every handle of the server to CANCELING.
CancelApplyToAll(sel, i, acc) ==
  [acc EXCEPT !.hs = [p \in 1 .. Len(acc.hs) |-> [acc.hs[p] EXCEPT !.state = "CANCELING"]],
              !.resp = [k \in 1 .. Len(sel) |-> GoalHandleGetInfo(acc.hs, sel[k])]]

\* "Transition goals to canceling and add to response", from index i (1-based).
RECURSIVE CancelApply(_, _, _)
CancelApply(sel, i, acc) ==
  IF i > Len(sel) THEN acc
  ELSE LET p == sel[i]
           to == GoalTransition(acc.hs[p].state, "CANCEL")
       IN IF to # ""
            THEN CancelApply(sel, i + 1,
                   [acc EXCEPT !.hs = [acc.hs EXCEPT ![p].state = to],
                               !.resp = Append(acc.resp, GoalHandleGetInfo(acc.hs, p))])
            ELSE CancelApply(sel, i + 1,
                   [acc EXCEPT !.ret = "ERROR", !.resp = Append(acc.resp, Unfilled)])

\* ret_final after rcl_action_cancel_response_init returned init_ret # OK with
\* ret_final being `before`: the BAD_ALLOC branch assigns it and the statement
\* after the branch assigns it again.
CancelResponseInitFails(before, init_ret) ==
  LET in_branch == IF init_ret = "BAD_ALLOC" THEN "BAD_ALLOC" ELSE before
      after_branch == "ERROR"
  IN after_branch

CancelReturns(ret, uuid, sec, nanosec, sel, resp) ==
  last' = Observed([Call("cancel", ret) EXCEPT !.uuid = uuid, !.sec = sec,
                                      !.nanosec = nanosec, !.sel = sel, !.resp = resp])

\* rcl_action_process_cancel_request(action_server, {uuid, (sec, nanosec)}, &response)
ProcessCancelRequest(uuid, sec, nanosec) ==
  /\ proc = "running"
  /\ IF ~ServerIsValid
       THEN /\ CancelReturns("ACTION_SERVER_INVALID", uuid, sec, nanosec, <<>>, <<>>)
            /\ UNCHANGED <<watch, proc, impl, goal_handles, num_goal_handles, array_state,
                           handles, accepted_at, clock_now>>
       ELSE \/ \* allocating goal_handles_to_cancel fails
               /\ last' = Observed([Call("cancel", "BAD_ALLOC") EXCEPT
                                       !.uuid = uuid, !.sec = sec, !.nanosec = nanosec,
                                       !.cause = "BAD_ALLOC"])
               /\ UNCHANGED <<watch, proc, impl, goal_handles, num_goal_handles, array_state,
                              handles, accepted_at, clock_now>>
            \/ BadArrayUse /\ Abort
            \/ LET request_nanosec == GoalInfoStampToNanosec([sec |-> sec, nanosec |-> nanosec])
                   r == CancelSelection(goal_handles, num_goal_handles, handles,
                                        uuid, request_nanosec)
                   done == CancelApply(r.sel, 1, [hs |-> handles, resp |-> <<>>, ret |-> r.ret])
               IN IF r.crash THEN Abort
                  ELSE IF r.sel = <<>>
                    THEN /\ CancelReturns(r.ret, uuid, sec, nanosec, <<>>, <<>>)
                         /\ UNCHANGED <<watch, proc, impl, goal_handles, num_goal_handles,
                                        array_state, handles, accepted_at, clock_now>>
                  ELSE \/ \* rcl_action_cancel_response_init fails
                          /\ \E init_ret \in {"BAD_ALLOC", "ERROR"} :
                               last' = Observed([Call("cancel",
                                            CancelResponseInitFails(r.ret, init_ret))
                                          EXCEPT !.uuid = uuid, !.sec = sec,
                                                 !.nanosec = nanosec, !.sel = r.sel,
                                                 !.cause = init_ret])
                          /\ UNCHANGED <<watch, proc, impl, goal_handles, num_goal_handles,
                                         array_state, handles, accepted_at, clock_now>>
                       \/ /\ handles' = done.hs
                          /\ CancelReturns(done.ret, uuid, sec, nanosec, r.sel, done.resp)
                          /\ UNCHANGED <<watch, proc, impl, goal_handles, num_goal_handles,
                                         array_state, accepted_at, clock_now>>

\* The cancel requests clients send: any UUID with a zero stamp or a stamp of
\* 1 or NsPerSec nanoseconds.
CancelStamps == {<<0, 0>>, <<0, 1>>, <<1, 0>>}

Next ==
  \/ ServerInit
  \/ \E failed \in FiniFailures : ServerFini(TRUE, failed)
  \/ ServerFini(FALSE, {})
  \/ AdvanceClock
  \/ \E p \in 1 .. MaxHandles, e \in Events : UpdateGoalState(p, e)
  \/ \E u \in Uuids, st \in ClientStamps : AcceptNewGoal(u, st[1], st[2])
  \/ ClearExpiredGoals
  \/ \E u \in Uuids, st \in CancelStamps : ProcessCancelRequest(u, st[1], st[2])
  \/ GetGoalStatusArray

Spec == Init /\ [][Next]_vars


\* The same server, recording the calls of one operation.
InitAccept == InitServer /\ clock_now = 0 /\ watch = "accept"
SpecAccept == InitAccept /\ [][Next]_vars

\* The same, started when the clock reads LateClock.
InitLate == InitServer /\ clock_now = LateClock /\ watch = "accept"
SpecLate == InitLate /\ [][Next]_vars

InitCancel == InitServer /\ clock_now = 0 /\ watch = "cancel"
SpecCancel == InitCancel /\ [][Next]_vars

InitClear == InitServer /\ clock_now = 0 /\ watch = "clear_expired_goals"
SpecClear == InitClear /\ [][Next]_vars

\* The host keeps calling clear_expired_goals and the clock keeps advancing.
SpecSweepFair ==
  InitClear /\ [][Next]_vars /\ WF_vars(ClearExpiredGoals) /\ WF_vars(AdvanceClock)

\* The same server, recording init and fini.
InitLifecycle == InitServer /\ clock_now = 0 /\ watch = "lifecycle"
SpecLifecycle == InitLifecycle /\ [][Next]_vars

\* The same server, recording get_goal_status_array.
InitStatus == InitServer /\ clock_now = 0 /\ watch = "status"
SpecStatus == InitStatus /\ [][Next]_vars

\* ------------------------------------------------------------ observations
\* The handle at p is a live goal handle held in one of the n tracked slots.
Tracked(gh, n, hs, p) ==
  /\ GoalHandleIsValid(hs, p)
  /\ \E i \in 1 .. n : gh[i] = p

\* The live goal handles in the table.
TrackedGoals == {p \in 1 .. Len(handles) : Tracked(goal_handles, num_goal_handles, handles, p)}

\* The cancelable goals in the table.
CancelableTracked == {p \in TrackedGoals : GoalHandleIsCancelable(handles, p)}

\* The stamp of the handle at p, in nanoseconds.
StampOf(hs, p) == GoalInfoStampToNanosec(GoalHandleGetInfo(hs, p))

\* The set of elements of a sequence.
Range(seq) == {seq[i] : i \in 1 .. Len(seq)}

\* The indices of seq that hold x.
Occurrences(seq, x) == {i \in 1 .. Len(seq) : seq[i] = x}

\* rec is a process_cancel_request call that got past its argument checks and
\* the allocation of its scratch array.
CancelCompleted(rec) ==
  rec.op = "cancel" /\ rec.ret \notin {"BAD_ALLOC", "ACTION_SERVER_INVALID"}

\* The stamp of the request of rec, in nanoseconds.
RequestNanosec(rec) == GoalInfoStampToNanosec([sec |-> rec.sec, nanosec |-> rec.nanosec])

\* ------------------------------------------------------------------ claims
\* C1: in every reachable state no two entries of the goals table (two goal
\* handles held in slots 0 .. num_goal_handles-1) carry the same UUID.
C1_UuidsUnique ==
  \A i, j \in 1 .. num_goal_handles :
    (/\ goal_handles[i] # goal_handles[j]
     /\ GoalHandleIsValid(handles, goal_handles[i])
     /\ GoalHandleIsValid(handles, goal_handles[j]))
    => handles[goal_handles[i]].uuid # handles[goal_handles[j]].uuid

\* C2: a goal leaves the goals table only during clear_expired_goals, and only
\* if at that sweep its handle is non-active and now - stamp > result_timeout;
\* every other goal in the table before an operation that returns is still in
\* the table after it.
C2_RemovedOnlyWhenExpired ==
  [][\A p \in 1 .. Len(handles) :
       (/\ proc' = "running"
        /\ Tracked(goal_handles, num_goal_handles, handles, p)
        /\ ~Tracked(goal_handles', num_goal_handles', handles', p))
       => (/\ last'.op = "clear_expired_goals"
           /\ ~GoalHandleIsActive(handles, p)
           /\ Expired(clock_now, StampOf(handles, p)))]_vars

\* C3: after a successful accept_new_goal(info), goal_exists(info) returns true
\* and keeps returning true until a clear_expired_goals call removes (finalizes)
\* that goal.
C3_AcceptedGoalExists ==
  [][\A u \in Uuids :
       (/\ proc' = "running"
        /\ \/ /\ Len(handles') = Len(handles) + 1
              /\ handles'[Len(handles')].uuid = u
           \/ ServerGoalExists(u) = "true")
       => (\/ ServerGoalExists(u)' = "true"
           \/ \E p \in TrackedGoals :
                handles[p].uuid = u /\ handles'[p].state = "DISPOSED")]_vars

\* C4: accept_new_goal with a UUID that is already in the goals table returns
\* null and leaves the table (length and entries) unchanged.
C4_DuplicateRejected ==
  [][(/\ last'.op = "accept"
      /\ ServerIsValid
      /\ \E p \in TrackedGoals : handles[p].uuid = last'.uuid)
     => (/\ last'.ret = "NULL"
         /\ goal_handles' = goal_handles
         /\ num_goal_handles' = num_goal_handles)]_vars

\* C5: the handle stored by a successful accept_new_goal(info) has the UUID
\* info.uuid and a stamp equal to the clock reading taken during the call.
C5_StoredStampIsClockReading ==
  [][(last'.op = "accept" /\ last'.ret = "HANDLE")
     => (/\ handles'[Len(handles')].uuid = last'.uuid
         /\ StampOf(handles', Len(handles')) = clock_now)]_vars

\* C6: process_cancel_request with a zero UUID and a zero stamp selects exactly
\* the cancelable goals of the table, whatever their stamps: the selection the
\* time-bounded scan makes with the bound INT64_MAX; when it returns OK the
\* response lists the selected goals and each of them is CANCELING.
C6_WildcardSelectsAllCancelable ==
  [][(/\ CancelCompleted(last')
      /\ last'.uuid = ZeroUuid
      /\ RequestNanosec(last') = 0)
     => (/\ Range(last'.sel) = CancelableTracked
         /\ last'.sel = CancelScanAll(goal_handles, num_goal_handles, handles, ZeroUuid,
                                      INT64_MAX, 1,
                                      [sel |-> <<>>, ret |-> "OK", crash |-> FALSE]).sel
         /\ last'.ret = "OK" =>
              (/\ Len(last'.resp) = Len(last'.sel)
               /\ \A i \in 1 .. Len(last'.sel) :
                    /\ last'.resp[i] = GoalHandleGetInfo(handles, last'.sel[i])
                    /\ handles'[last'.sel[i]].state = "CANCELING"))]_vars

\* C6 happens: a wildcard request returned OK after selecting two goals with
\* different stamps.
C6_Witness ==
  /\ CancelCompleted(last)
  /\ last.uuid = ZeroUuid
  /\ RequestNanosec(last) = 0
  /\ last.ret = "OK"
  /\ Len(last.resp) = 2
  /\ GoalInfoStampToNanosec(last.resp[1]) # GoalInfoStampToNanosec(last.resp[2])

\* C7: process_cancel_request with a non-zero UUID X and a zero stamp selects
\* the goal with UUID X if it is in the table and cancelable and no goal
\* otherwise; when it selects none it returns OK with an empty response; it
\* never transitions a goal whose UUID is not X.
C7_SingleGoalByUuid ==
  [][(/\ CancelCompleted(last')
      /\ last'.uuid # ZeroUuid
      /\ RequestNanosec(last') = 0)
     => LET match == {p \in CancelableTracked : handles[p].uuid = last'.uuid}
        IN /\ Len(last'.sel) <= 1
           /\ Range(last'.sel) = match
           /\ match = {} => (last'.ret = "OK" /\ last'.resp = <<>>)
           /\ \A p \in 1 .. Len(handles) :
                handles[p].uuid # last'.uuid => handles'[p] = handles[p]]_vars

\* C8: process_cancel_request with a zero UUID and a non-zero stamp T selects
\* exactly the cancelable goals whose stamp is <= T; a goal with a stamp greater
\* than T is neither transitioned nor listed in the response.
C8_TimeBoundSelectsUpToStamp ==
  [][(/\ CancelCompleted(last')
      /\ last'.uuid = ZeroUuid
      /\ RequestNanosec(last') # 0)
     => (/\ Range(last'.sel) =
              {p \in CancelableTracked : StampOf(handles, p) <= RequestNanosec(last')}
         /\ \A p \in TrackedGoals :
              StampOf(handles, p) > RequestNanosec(last')
              => (/\ handles'[p] = handles[p]
                  /\ p \notin Range(last'.sel)))]_vars

\* C9: process_cancel_request with a non-zero UUID X and a non-zero stamp T
\* selects exactly the cancelable goals whose stamp is <= T together with the
\* cancelable goal whose UUID is X; a goal is selected once per table slot that
\* holds it, and once the response is allocated exactly one of its entries is
\* written for each selected goal.
C9_UnionOfUuidAndStamp ==
  [][(/\ CancelCompleted(last')
      /\ last'.uuid # ZeroUuid
      /\ RequestNanosec(last') # 0)
     => LET want == {p \in CancelableTracked :
                       \/ StampOf(handles, p) <= RequestNanosec(last')
                       \/ handles[p].uuid = last'.uuid}
        IN /\ Range(last'.sel) = want
           /\ \A p \in want :
                Cardinality(Occurrences(last'.sel, p)) =
                  Cardinality(Occurrences(SubSeq(goal_handles, 1, num_goal_handles), p))
           /\ last'.resp # <<>> =>
                (/\ Len(last'.resp) = Len(last'.sel)
                 /\ \A p \in want :
                      Cardinality({i \in Occurrences(last'.sel, p) :
                                     last'.resp[i] = GoalHandleGetInfo(handles, p)}) = 1)]_vars

\* C9 happens: a request with UUID X and stamp T returned OK with a response
\* of two goals, the goal X stamped after T and another goal stamped at or
\* before T.
C9_Witness ==
  /\ CancelCompleted(last)
  /\ last.uuid # ZeroUuid
  /\ RequestNanosec(last) # 0
  /\ last.ret = "OK"
  /\ Len(last.resp) = 2
  /\ \E i, j \in 1 .. 2 :
       /\ last.resp[i].uuid = last.uuid
       /\ GoalInfoStampToNanosec(last.resp[i]) > RequestNanosec(last)
       /\ last.resp[j].uuid # last.uuid
       /\ GoalInfoStampToNanosec(last.resp[j]) <= RequestNanosec(last)

\* C10: after a sweep returns OK, no non-active goal with now - stamp >
\* result_timeout remains in the table, so a second sweep with no clock advance
\* and no goal-state change in between removes nothing.
C10_SweepLeavesNoExpired ==
  (proc = "running" /\ last.op = "clear_expired_goals" /\ last.ret = "OK")
  => \A p \in TrackedGoals :
       GoalHandleIsActive(handles, p) \/ ~Expired(clock_now, StampOf(handles, p))

\* C11: when a sweep removes every goal of the table, the table is empty
\* afterwards: the server reports 0 goals and goal_exists is false for every
\* UUID.
C11_SweepOfAllGoalsEmptiesTable ==
  [][(/\ last'.op = "clear_expired_goals"
      /\ proc' = "running"
      /\ TrackedGoals # {}
      /\ \A p \in TrackedGoals : handles'[p].state = "DISPOSED")
     => (/\ num_goal_handles' = 0
         /\ \A u \in Uuids : ServerGoalExists(u)' = "false")]_vars

\* C12: fini with a valid node leaves the server uninitialized (impl null)
\* whatever it returns; on an uninitialized server it returns OK and changes
\* nothing.
C12_FiniLeavesUninitialized ==
  [][(last'.op = "fini" /\ last'.ret # "NODE_INVALID")
     => (/\ impl' = "null"
         /\ impl = "null" =>
              (/\ last'.ret = "OK"
               /\ UNCHANGED <<goal_handles, num_goal_handles, array_state,
                              handles, accepted_at, clock_now>>))]_vars

\* C12 happens: fini of an initialized server that had accepted a goal returned
\* ERROR, and the server is uninitialized.
C12_Witness ==
  /\ last.op = "fini"
  /\ last.ret = "ERROR"
  /\ impl = "null"
  /\ Len(handles) > 0

\* C13: init on an initialized server returns ALREADY_INIT and leaves the
\* server, its goals table and its goal handles unchanged.
C13_DoubleInitRejected ==
  [][(last'.op = "init" /\ impl = "valid")
     => (/\ last'.ret = "ALREADY_INIT"
         /\ UNCHANGED <<impl, goal_handles, num_goal_handles, array_state,
                        handles, accepted_at, clock_now>>)]_vars

\* C13 happens: init was rejected on a server that tracks a goal.
C13_Witness ==
  /\ last.op = "init"
  /\ last.ret = "ALREADY_INIT"
  /\ impl = "valid"
  /\ TrackedGoals # {}

\* C14: fini on an initialized server finalizes all five endpoints, and after
\* it no goal handle accepted by the server remains undisposed.
C14_FiniDisposesGoals ==
  [][(last'.op = "fini" /\ last'.ret # "NODE_INVALID" /\ impl = "valid")
     => (/\ last'.sel = Endpoints
         /\ \A p \in 1 .. Len(handles) : handles'[p].state = "DISPOSED")]_vars

\* C15: init on an uninitialized server either succeeds, leaving the server
\* initialized with an empty goals table, or returns the error of the failing
\* step and leaves the server uninitialized.
C15_InitAllOrNothing ==
  [][(/\ proc = "running"
      /\ impl = "null"
      /\ last'.op = "init" \/ proc' = "aborted")
     => (/\ proc' = "running"
         /\ \/ /\ last'.ret = "OK"
               /\ impl' = "valid"
               /\ num_goal_handles' = 0
               /\ goal_handles' = <<>>
            \/ /\ last'.ret \in {"BAD_ALLOC", "ACTION_NAME_INVALID", "ERROR"}
               /\ impl' = "null")]_vars

\* C16: get_goal_status_array on an initialized server never changes the goals
\* table; when it returns OK the status list has one entry per table slot, the
\* i-th being the info and status of the i-th goal; with zero goals it returns
\* OK with size 0 and allocates nothing; when a goal cannot be read it returns
\* ERROR with the list finalized.
C16_StatusArrayIsSnapshot ==
  [][(last'.op = "status" /\ ServerIsValid)
     => (/\ UNCHANGED <<impl, goal_handles, num_goal_handles, array_state, handles>>
         /\ last'.ret = "OK" =>
              (/\ Len(last'.resp) = num_goal_handles
               /\ \A i \in 1 .. num_goal_handles :
                    /\ GoalHandleIsValid(handles, goal_handles[i])
                    /\ last'.resp[i].uuid = handles[goal_handles[i]].uuid
                    /\ GoalInfoStampToNanosec(last'.resp[i]) = StampOf(handles, goal_handles[i])
                    /\ last'.resp[i].status = handles[goal_handles[i]].state)
         /\ num_goal_handles = 0 =>
              (last'.ret = "OK" /\ last'.resp = <<>> /\ last'.count = 0)
         /\ (\E i \in 1 .. num_goal_handles :
                ~GoalHandleIsValid(handles, goal_handles[i])) =>
              (last'.ret \in {"ERROR", "BAD_ALLOC"} /\ last'.resp = <<>>))]_vars

\* C16 happens: the call returned OK with the entries of two goals of different
\* status.
C16_Witness ==
  /\ last.op = "status"
  /\ last.ret = "OK"
  /\ Len(last.resp) = 2
  /\ last.resp[1].status # last.resp[2].status
  /\ last.resp[1].uuid # last.resp[2].uuid

\* C17: for any clear_expired_goals call, out_count is the number of goal
\* handles the call disposed and the difference of the table length before and
\* after, and the goals left in the table are the goals of before minus the
\* disposed ones.
C17_CountMatchesRemoved ==
  [][(last'.op = "clear_expired_goals" /\ proc' = "running" /\ ServerIsValid
      /\ last'.ret # "ACTION_SERVER_INVALID")
     => LET disposed == {p \in 1 .. Len(handles) :
                           handles[p].state # "DISPOSED" /\ handles'[p].state = "DISPOSED"}
        IN /\ last'.count = Cardinality(disposed)
           /\ last'.count = num_goal_handles - num_goal_handles'
           /\ {handles'[p].uuid : p \in TrackedGoals'}
                = {handles[p].uuid : p \in TrackedGoals \ disposed}]_vars

\* C18: when the transition or the info copy fails for a selected handle,
\* process_cancel_request still transitions every other selected handle,
\* returns ERROR, and goals_canceling holds the info of exactly the handles
\* whose cancellation succeeded, with no unfilled entry.
C18_PartialFailureKeepsSucceeded ==
  [][(/\ last'.op = "cancel"
      /\ proc' = "running"
      /\ last'.sel # <<>>
      /\ handles' # handles)
     => LET succeeded == {p \in SeqRange(last'.sel) :
                            handles[p].state # "CANCELING"
                            /\ handles'[p].state = "CANCELING"}
        IN /\ \A p \in SeqRange(last'.sel) : handles'[p].state = "CANCELING"
           /\ Len(last'.resp) < Len(last'.sel) => last'.ret = "ERROR"
           /\ \A i \in 1 .. Len(last'.resp) : last'.resp[i] # Unfilled
           /\ {e.uuid : e \in SeqRange(last'.resp)}
                = {handles[p].uuid : p \in succeeded}]_vars

\* C19: an accept_new_goal call that returns null leaves the server as it was
\* before the call: the table has the same length and entries, and the stored
\* array reference still reaches them.
C19_FailedAcceptRestoresState ==
  [][(last'.op = "accept" /\ last'.ret = "NULL" /\ proc' = "running")
     => UNCHANGED <<impl, goal_handles, num_goal_handles, array_state, handles>>]_vars

\* C20: when an allocation of process_cancel_request fails for lack of memory,
\* for the temporary selection array or for goals_canceling, the call returns
\* BAD_ALLOC and no goal has been transitioned.
C20_AllocationFailureIsBadAlloc ==
  [][(last'.op = "cancel" /\ last'.cause = "BAD_ALLOC")
     => (last'.ret = "BAD_ALLOC" /\ UNCHANGED handles)]_vars

\* C21: every clock reading t >= 0 splits into a stamp that converts back to
\* t: the stamp of every live goal handle, as cancel resolution and the sweep
\* read it, is the clock reading taken when the goal was accepted.
C21_StampRoundTrip ==
  \A p \in 1 .. Len(handles) :
    (GoalHandleIsValid(handles, p) /\ accepted_at[p] >= 0 /\ accepted_at[p] <= INT64_MAX)
    => (/\ GoalInfoStampToNanosec(NanosecToGoalInfoStamp(accepted_at[p])) = accepted_at[p]
        /\ StampOf(handles, p) = accepted_at[p])

\* C22: in every state of an initialized server each slot below
\* num_goal_handles holds a distinct live goal handle returned by an earlier
\* accept_new_goal, and clear_expired_goals touches no slot at or past the
\* table length.
C22_SlotsHoldLiveHandles ==
  (proc = "running" /\ ServerIsValid)
  => (/\ \A i \in 1 .. num_goal_handles :
            /\ goal_handles[i] \in 1 .. Len(handles)
            /\ GoalHandleIsValid(handles, goal_handles[i])
            /\ Cardinality(Occurrences(goal_handles, goal_handles[i])) = 1
      /\ last.op = "clear_expired_goals" => ~last.oob)

\* C23: process_cancel_request never changes the goals table and changes the
\* state of no goal other than those it selected: a goal that is not cancelable
\* or is outside the selected set has the same status after the call, and a
\* selected goal changes in nothing but its status.
C23_CancelFrame ==
  [][last'.op = "cancel"
     => (/\ UNCHANGED <<impl, goal_handles, num_goal_handles, array_state>>
         /\ Len(handles') = Len(handles)
         /\ \A p \in 1 .. Len(handles) :
              /\ (p \notin SeqRange(last'.sel) \/ ~GoalHandleIsCancelable(handles, p))
                   => handles'[p] = handles[p]
              /\ handles'[p] # handles[p]
                   => handles'[p] = [handles[p] EXCEPT !.state = "CANCELING"])]_vars

\* C23 happens: a call canceled the one goal it selected while the table held
\* a cancelable goal it did not select.
C23_Witness ==
  /\ last.op = "cancel"
  /\ last.ret = "OK"
  /\ Len(last.sel) = 1
  /\ handles[last.sel[1]].state = "CANCELING"
  /\ \E p \in TrackedGoals \ SeqRange(last.sel) : handles[p].state = "EXECUTING"

\* C24: when clear_expired_goals is called again and again and the clock keeps
\* advancing, every accepted goal that reaches a terminated state is eventually
\* disposed and out of the goals table, and no goal handle leaves the table of
\* a running server without being disposed.
C24_TerminatedGoalsAreDisposed ==
  /\ [][\A p \in 1 .. Len(handles) :
          (/\ proc' = "running"
           /\ ServerIsValid'
           /\ Tracked(goal_handles, num_goal_handles, handles, p)
           /\ ~Tracked(goal_handles', num_goal_handles', handles', p))
          => handles'[p].state = "DISPOSED"]_vars
  /\ \A p \in 1 .. MaxHandles :
       [](/\ p <= Len(handles)
          /\ Tracked(goal_handles, num_goal_handles, handles, p)
          /\ handles[p].state \in TerminalStates
          => <>(\/ p > Len(handles)
                \/ /\ handles[p].state = "DISPOSED"
                   /\ \A i \in 1 .. num_goal_handles : goal_handles[i] # p))

=============================================================================
